---- MODULE Spec2Model ----
(***************************************************************************)
(* State-machine model of setup_taxi_database.py: the startup prompt of    *)
(* the __main__ block, setup_database (connect, zone lookup, month/URL     *)
(* planning, first CREATE TABLE AS, later INSERT ... SELECT, reporting,    *)
(* close) and the process exit status.                                     *)
(*                                                                         *)
(* A SQL NULL is the empty set and a non-null value v is {v}.  A table is  *)
(* a record [exists, rows].  The trips table and a monthly Parquet file    *)
(* are run-length encoded: a run is n consecutive rows with the same       *)
(* column values; in the table a run also carries the trip_id of its first *)
(* row, the following rows of the run having the following ids (or all of  *)
(* them NULL).                                                             *)
(***************************************************************************)
EXTENDS Integers, Sequences, FiniteSets, TLC

VARIABLES pc, stdin, months_to_load, conOpen, tmpfile, zones_downloaded,
          zones, trips, months, urls, next_url, failed, trip_count,
          zone_count, result, exit_status

vars == <<pc, stdin, months_to_load, conOpen, tmpfile, zones_downloaded,
          zones, trips, months, urls, next_url, failed, trip_count,
          zone_count, result, exit_status>>

(* ------------------------------ bounds --------------------------------- *)

MaxInputLen == 3

MaxMonthsArg == 30

MaxRuns == 1

BigCount == 100001

(* ------------------------- program constants --------------------------- *)

DefaultMonths == 3

MinMonths == 1

MaxMonths == 12

current_year == 2024

FirstLimit == 100000

LaterLimit == 50000

FareLow == 0

FareHigh == 500

DistanceLow == 0

DistanceHigh == 100

PassengerLow == 0

PassengerHigh == 6

IntMaxStrDigits == 4300

UrlPrefix == "https://d37ci6vzurychx.cloudfront.net/trip-data/yellow_tripdata_"

UrlSuffix == ".parquet"

(* ------------------------------ SQL values ----------------------------- *)

NULL == {}

Val(v) == {v}

NoTable == [exists |-> FALSE, rows |-> <<>>]

Table(rows) == [exists |-> TRUE, rows |-> rows]

(* --------------------------- the startup prompt ------------------------ *)

\* A character is a one-character string; a character outside ASCII, or one
\* that has no escape in a string, is written by its code point, "U+0665".

DigitChar == <<"0", "1", "2", "3", "4", "5", "6", "7", "8", "9">>

\* the blocks of ten decimal digits (category Nd) outside ASCII, each from its
\* zero to its nine: Arabic-Indic U+0660, Devanagari U+0966, Thai U+0E50,
\* fullwidth U+FF10, the mathematical digits U+1D7CE .. U+1D7FF and the rest
UnicodeDigitBlocks ==
    {<<"U+0660", "U+0661", "U+0662", "U+0663", "U+0664",
       "U+0665", "U+0666", "U+0667", "U+0668", "U+0669">>,
     <<"U+06F0", "U+06F1", "U+06F2", "U+06F3", "U+06F4",
       "U+06F5", "U+06F6", "U+06F7", "U+06F8", "U+06F9">>,
     <<"U+07C0", "U+07C1", "U+07C2", "U+07C3", "U+07C4",
       "U+07C5", "U+07C6", "U+07C7", "U+07C8", "U+07C9">>,
     <<"U+0966", "U+0967", "U+0968", "U+0969", "U+096A",
       "U+096B", "U+096C", "U+096D", "U+096E", "U+096F">>,
     <<"U+09E6", "U+09E7", "U+09E8", "U+09E9", "U+09EA",
       "U+09EB", "U+09EC", "U+09ED", "U+09EE", "U+09EF">>,
     <<"U+0A66", "U+0A67", "U+0A68", "U+0A69", "U+0A6A",
       "U+0A6B", "U+0A6C", "U+0A6D", "U+0A6E", "U+0A6F">>,
     <<"U+0AE6", "U+0AE7", "U+0AE8", "U+0AE9", "U+0AEA",
       "U+0AEB", "U+0AEC", "U+0AED", "U+0AEE", "U+0AEF">>,
     <<"U+0B66", "U+0B67", "U+0B68", "U+0B69", "U+0B6A",
       "U+0B6B", "U+0B6C", "U+0B6D", "U+0B6E", "U+0B6F">>,
     <<"U+0BE6", "U+0BE7", "U+0BE8", "U+0BE9", "U+0BEA",
       "U+0BEB", "U+0BEC", "U+0BED", "U+0BEE", "U+0BEF">>,
     <<"U+0C66", "U+0C67", "U+0C68", "U+0C69", "U+0C6A",
       "U+0C6B", "U+0C6C", "U+0C6D", "U+0C6E", "U+0C6F">>,
     <<"U+0CE6", "U+0CE7", "U+0CE8", "U+0CE9", "U+0CEA",
       "U+0CEB", "U+0CEC", "U+0CED", "U+0CEE", "U+0CEF">>,
     <<"U+0D66", "U+0D67", "U+0D68", "U+0D69", "U+0D6A",
       "U+0D6B", "U+0D6C", "U+0D6D", "U+0D6E", "U+0D6F">>,
     <<"U+0DE6", "U+0DE7", "U+0DE8", "U+0DE9", "U+0DEA",
       "U+0DEB", "U+0DEC", "U+0DED", "U+0DEE", "U+0DEF">>,
     <<"U+0E50", "U+0E51", "U+0E52", "U+0E53", "U+0E54",
       "U+0E55", "U+0E56", "U+0E57", "U+0E58", "U+0E59">>,
     <<"U+0ED0", "U+0ED1", "U+0ED2", "U+0ED3", "U+0ED4",
       "U+0ED5", "U+0ED6", "U+0ED7", "U+0ED8", "U+0ED9">>,
     <<"U+0F20", "U+0F21", "U+0F22", "U+0F23", "U+0F24",
       "U+0F25", "U+0F26", "U+0F27", "U+0F28", "U+0F29">>,
     <<"U+1040", "U+1041", "U+1042", "U+1043", "U+1044",
       "U+1045", "U+1046", "U+1047", "U+1048", "U+1049">>,
     <<"U+1090", "U+1091", "U+1092", "U+1093", "U+1094",
       "U+1095", "U+1096", "U+1097", "U+1098", "U+1099">>,
     <<"U+17E0", "U+17E1", "U+17E2", "U+17E3", "U+17E4",
       "U+17E5", "U+17E6", "U+17E7", "U+17E8", "U+17E9">>,
     <<"U+1810", "U+1811", "U+1812", "U+1813", "U+1814",
       "U+1815", "U+1816", "U+1817", "U+1818", "U+1819">>,
     <<"U+1946", "U+1947", "U+1948", "U+1949", "U+194A",
       "U+194B", "U+194C", "U+194D", "U+194E", "U+194F">>,
     <<"U+19D0", "U+19D1", "U+19D2", "U+19D3", "U+19D4",
       "U+19D5", "U+19D6", "U+19D7", "U+19D8", "U+19D9">>,
     <<"U+1A80", "U+1A81", "U+1A82", "U+1A83", "U+1A84",
       "U+1A85", "U+1A86", "U+1A87", "U+1A88", "U+1A89">>,
     <<"U+1A90", "U+1A91", "U+1A92", "U+1A93", "U+1A94",
       "U+1A95", "U+1A96", "U+1A97", "U+1A98", "U+1A99">>,
     <<"U+1B50", "U+1B51", "U+1B52", "U+1B53", "U+1B54",
       "U+1B55", "U+1B56", "U+1B57", "U+1B58", "U+1B59">>,
     <<"U+1BB0", "U+1BB1", "U+1BB2", "U+1BB3", "U+1BB4",
       "U+1BB5", "U+1BB6", "U+1BB7", "U+1BB8", "U+1BB9">>,
     <<"U+1C40", "U+1C41", "U+1C42", "U+1C43", "U+1C44",
       "U+1C45", "U+1C46", "U+1C47", "U+1C48", "U+1C49">>,
     <<"U+1C50", "U+1C51", "U+1C52", "U+1C53", "U+1C54",
       "U+1C55", "U+1C56", "U+1C57", "U+1C58", "U+1C59">>,
     <<"U+A620", "U+A621", "U+A622", "U+A623", "U+A624",
       "U+A625", "U+A626", "U+A627", "U+A628", "U+A629">>,
     <<"U+A8D0", "U+A8D1", "U+A8D2", "U+A8D3", "U+A8D4",
       "U+A8D5", "U+A8D6", "U+A8D7", "U+A8D8", "U+A8D9">>,
     <<"U+A900", "U+A901", "U+A902", "U+A903", "U+A904",
       "U+A905", "U+A906", "U+A907", "U+A908", "U+A909">>,
     <<"U+A9D0", "U+A9D1", "U+A9D2", "U+A9D3", "U+A9D4",
       "U+A9D5", "U+A9D6", "U+A9D7", "U+A9D8", "U+A9D9">>,
     <<"U+A9F0", "U+A9F1", "U+A9F2", "U+A9F3", "U+A9F4",
       "U+A9F5", "U+A9F6", "U+A9F7", "U+A9F8", "U+A9F9">>,
     <<"U+AA50", "U+AA51", "U+AA52", "U+AA53", "U+AA54",
       "U+AA55", "U+AA56", "U+AA57", "U+AA58", "U+AA59">>,
     <<"U+ABF0", "U+ABF1", "U+ABF2", "U+ABF3", "U+ABF4",
       "U+ABF5", "U+ABF6", "U+ABF7", "U+ABF8", "U+ABF9">>,
     <<"U+FF10", "U+FF11", "U+FF12", "U+FF13", "U+FF14",
       "U+FF15", "U+FF16", "U+FF17", "U+FF18", "U+FF19">>,
     <<"U+104A0", "U+104A1", "U+104A2", "U+104A3", "U+104A4",
       "U+104A5", "U+104A6", "U+104A7", "U+104A8", "U+104A9">>,
     <<"U+10D30", "U+10D31", "U+10D32", "U+10D33", "U+10D34",
       "U+10D35", "U+10D36", "U+10D37", "U+10D38", "U+10D39">>,
     <<"U+11066", "U+11067", "U+11068", "U+11069", "U+1106A",
       "U+1106B", "U+1106C", "U+1106D", "U+1106E", "U+1106F">>,
     <<"U+110F0", "U+110F1", "U+110F2", "U+110F3", "U+110F4",
       "U+110F5", "U+110F6", "U+110F7", "U+110F8", "U+110F9">>,
     <<"U+11136", "U+11137", "U+11138", "U+11139", "U+1113A",
       "U+1113B", "U+1113C", "U+1113D", "U+1113E", "U+1113F">>,
     <<"U+111D0", "U+111D1", "U+111D2", "U+111D3", "U+111D4",
       "U+111D5", "U+111D6", "U+111D7", "U+111D8", "U+111D9">>,
     <<"U+112F0", "U+112F1", "U+112F2", "U+112F3", "U+112F4",
       "U+112F5", "U+112F6", "U+112F7", "U+112F8", "U+112F9">>,
     <<"U+11450", "U+11451", "U+11452", "U+11453", "U+11454",
       "U+11455", "U+11456", "U+11457", "U+11458", "U+11459">>,
     <<"U+114D0", "U+114D1", "U+114D2", "U+114D3", "U+114D4",
       "U+114D5", "U+114D6", "U+114D7", "U+114D8", "U+114D9">>,
     <<"U+11650", "U+11651", "U+11652", "U+11653", "U+11654",
       "U+11655", "U+11656", "U+11657", "U+11658", "U+11659">>,
     <<"U+116C0", "U+116C1", "U+116C2", "U+116C3", "U+116C4",
       "U+116C5", "U+116C6", "U+116C7", "U+116C8", "U+116C9">>,
     <<"U+11730", "U+11731", "U+11732", "U+11733", "U+11734",
       "U+11735", "U+11736", "U+11737", "U+11738", "U+11739">>,
     <<"U+118E0", "U+118E1", "U+118E2", "U+118E3", "U+118E4",
       "U+118E5", "U+118E6", "U+118E7", "U+118E8", "U+118E9">>,
     <<"U+11950", "U+11951", "U+11952", "U+11953", "U+11954",
       "U+11955", "U+11956", "U+11957", "U+11958", "U+11959">>,
     <<"U+11C50", "U+11C51", "U+11C52", "U+11C53", "U+11C54",
       "U+11C55", "U+11C56", "U+11C57", "U+11C58", "U+11C59">>,
     <<"U+11D50", "U+11D51", "U+11D52", "U+11D53", "U+11D54",
       "U+11D55", "U+11D56", "U+11D57", "U+11D58", "U+11D59">>,
     <<"U+11DA0", "U+11DA1", "U+11DA2", "U+11DA3", "U+11DA4",
       "U+11DA5", "U+11DA6", "U+11DA7", "U+11DA8", "U+11DA9">>,
     <<"U+16A60", "U+16A61", "U+16A62", "U+16A63", "U+16A64",
       "U+16A65", "U+16A66", "U+16A67", "U+16A68", "U+16A69">>,
     <<"U+16AC0", "U+16AC1", "U+16AC2", "U+16AC3", "U+16AC4",
       "U+16AC5", "U+16AC6", "U+16AC7", "U+16AC8", "U+16AC9">>,
     <<"U+16B50", "U+16B51", "U+16B52", "U+16B53", "U+16B54",
       "U+16B55", "U+16B56", "U+16B57", "U+16B58", "U+16B59">>,
     <<"U+1D7CE", "U+1D7CF", "U+1D7D0", "U+1D7D1", "U+1D7D2",
       "U+1D7D3", "U+1D7D4", "U+1D7D5", "U+1D7D6", "U+1D7D7">>,
     <<"U+1D7D8", "U+1D7D9", "U+1D7DA", "U+1D7DB", "U+1D7DC",
       "U+1D7DD", "U+1D7DE", "U+1D7DF", "U+1D7E0", "U+1D7E1">>,
     <<"U+1D7E2", "U+1D7E3", "U+1D7E4", "U+1D7E5", "U+1D7E6",
       "U+1D7E7", "U+1D7E8", "U+1D7E9", "U+1D7EA", "U+1D7EB">>,
     <<"U+1D7EC", "U+1D7ED", "U+1D7EE", "U+1D7EF", "U+1D7F0",
       "U+1D7F1", "U+1D7F2", "U+1D7F3", "U+1D7F4", "U+1D7F5">>,
     <<"U+1D7F6", "U+1D7F7", "U+1D7F8", "U+1D7F9", "U+1D7FA",
       "U+1D7FB", "U+1D7FC", "U+1D7FD", "U+1D7FE", "U+1D7FF">>,
     <<"U+1E140", "U+1E141", "U+1E142", "U+1E143", "U+1E144",
       "U+1E145", "U+1E146", "U+1E147", "U+1E148", "U+1E149">>,
     <<"U+1E2F0", "U+1E2F1", "U+1E2F2", "U+1E2F3", "U+1E2F4",
       "U+1E2F5", "U+1E2F6", "U+1E2F7", "U+1E2F8", "U+1E2F9">>,
     <<"U+1E950", "U+1E951", "U+1E952", "U+1E953", "U+1E954",
       "U+1E955", "U+1E956", "U+1E957", "U+1E958", "U+1E959">>,
     <<"U+1FBF0", "U+1FBF1", "U+1FBF2", "U+1FBF3", "U+1FBF4",
       "U+1FBF5", "U+1FBF6", "U+1FBF7", "U+1FBF8", "U+1FBF9">>}

\* int() takes every Unicode decimal digit for its ASCII counterpart
DigitBlocks == {DigitChar} \cup UnicodeDigitBlocks

Digits == UNION {{b[d] : d \in 1..10} : b \in DigitBlocks}

DigitVal(c) == CHOOSE d \in 0..9 : \E b \in DigitBlocks : b[d + 1] = c

\* the characters str.strip() removes (str.isspace)
Whitespace ==
    {" ", "\t", "\n", "\r", "\f", "U+000B", "U+001C", "U+001D", "U+001E",
     "U+001F", "U+0085", "U+00A0", "U+1680", "U+2000", "U+2001", "U+2002",
     "U+2003", "U+2004", "U+2005", "U+2006", "U+2007", "U+2008", "U+2009",
     "U+200A", "U+2028", "U+2029", "U+202F", "U+205F", "U+3000"}

RECURSIVE LStrip(_)
LStrip(s) == IF s # <<>> /\ Head(s) \in Whitespace THEN LStrip(Tail(s)) ELSE s

RECURSIVE RStrip(_)
RStrip(s) ==
    IF s # <<>> /\ s[Len(s)] \in Whitespace
    THEN RStrip(SubSeq(s, 1, Len(s) - 1)) ELSE s

\* str.strip()
Strip(s) == RStrip(LStrip(s))

\* the text after an optional sign
Unsigned(s) == IF s # <<>> /\ Head(s) \in {"+", "-"} THEN Tail(s) ELSE s

\* the number of digits of a literal, underscores not counted
DigitCount(u) == Cardinality({i \in 1..Len(u) : u[i] \in Digits})

\* the strings int() accepts in base 10: optional sign, then digits that may
\* be separated by single underscores, no more than 4300 digits (a longer
\* literal raises ValueError too)
IsIntLiteral(s) ==
    LET u == Unsigned(s) IN
    /\ u # <<>>
    /\ DigitCount(u) <= IntMaxStrDigits
    /\ \A i \in 1..Len(u) : u[i] \in Digits \cup {"_"}
    /\ u[1] \in Digits
    /\ u[Len(u)] \in Digits
    /\ \A i \in 1..(Len(u) - 1) : ~(u[i] = "_" /\ u[i + 1] = "_")

RECURSIVE DigitsValue(_, _)
DigitsValue(u, acc) ==
    IF u = <<>> THEN acc
    ELSE IF Head(u) = "_" THEN DigitsValue(Tail(u), acc)
    ELSE DigitsValue(Tail(u), 10 * acc + DigitVal(Head(u)))

\* int(s) for an accepted literal
IntOf(s) ==
    IF Head(s) = "-" THEN 0 - DigitsValue(Unsigned(s), 0)
    ELSE DigitsValue(Unsigned(s), 0)

\* what input() delivers: a line, Ctrl-C (KeyboardInterrupt) or end of input
\* (EOFError)
Line(text) == [kind |-> "line", text |-> text]

KeyboardInterrupt == [kind |-> "KeyboardInterrupt", text |-> <<>>]

EOFError == [kind |-> "EOFError", text |-> <<>>]

\* the exception input() raises is not one of (ValueError, KeyboardInterrupt):
\* it escapes the try and ends the process with a traceback
PromptRaises(in) == in.kind = "EOFError"

\* the try/except of the __main__ block, when the prompt's exception (if any)
\* is caught: the month count
PromptMonths(in) ==
    IF in.kind = "KeyboardInterrupt" THEN DefaultMonths
    ELSE LET months_input == Strip(in.text) IN
         IF months_input = <<>> THEN DefaultMonths
         ELSE IF ~IsIntLiteral(months_input) THEN DefaultMonths
         ELSE LET n == IntOf(months_input) IN
              IF n < MinMonths THEN MinMonths
              ELSE IF n > MaxMonths THEN MaxMonths
              ELSE n

(* ------------------------- months and source URLs ---------------------- *)

\* MonthOf with the month numbered from 0
MonthOfZeroBased(i) == i

\* for i in range(months_to_load): month = i + 1; if month <= 12: append
MonthOf(i) == i + 1

RECURSIVE MonthsFrom(_, _)
MonthsFrom(i, n) ==
    IF i >= n THEN <<>>
    ELSE IF MonthOf(i) <= MaxMonths
         THEN <<<<current_year, MonthOf(i)>>>> \o MonthsFrom(i + 1, n)
         ELSE MonthsFrom(i + 1, n)

MonthsToLoad(n) == MonthsFrom(0, n)

RECURSIVE Decimal(_)
Decimal(n) ==
    IF n < 10 THEN DigitChar[n + 1]
    ELSE Decimal(n \div 10) \o DigitChar[(n % 10) + 1]

\* the format specification :02d for a non-negative integer
Format02d(n) == IF n < 10 THEN "0" \o Decimal(n) ELSE Decimal(n)

Url(year, month) ==
    UrlPrefix \o Decimal(year) \o "-" \o Format02d(month) \o UrlSuffix

UrlsOf(ms) == [j \in 1..Len(ms) |-> Url(ms[j][1], ms[j][2])]

(* ------------------------------ zone lookup ---------------------------- *)

zones_data == <<
    <<1, "Newark Airport", "EWR", "EWR">>,
    <<4, "Alphabet City", "Manhattan", "Yellow Zone">>,
    <<12, "Battery Park", "Manhattan", "Yellow Zone">>,
    <<13, "Battery Park City", "Manhattan", "Yellow Zone">>,
    <<43, "Central Park", "Manhattan", "Yellow Zone">>,
    <<45, "Chinatown", "Manhattan", "Yellow Zone">>,
    <<79, "East Village", "Manhattan", "Yellow Zone">>,
    <<87, "Financial District North", "Manhattan", "Yellow Zone">>,
    <<88, "Financial District South", "Manhattan", "Yellow Zone">>,
    <<100, "Garment District", "Manhattan", "Yellow Zone">>,
    <<107, "Gramercy", "Manhattan", "Yellow Zone">>,
    <<113, "Greenwich Village North", "Manhattan", "Yellow Zone">>,
    <<114, "Greenwich Village South", "Manhattan", "Yellow Zone">>,
    <<125, "Hell's Kitchen", "Manhattan", "Yellow Zone">>,
    <<137, "Kips Bay", "Manhattan", "Yellow Zone">>,
    <<140, "Lenox Hill East", "Manhattan", "Yellow Zone">>,
    <<141, "Lenox Hill West", "Manhattan", "Yellow Zone">>,
    <<142, "Lincoln Square East", "Manhattan", "Yellow Zone">>,
    <<143, "Lincoln Square West", "Manhattan", "Yellow Zone">>,
    <<144, "Little Italy", "Manhattan", "Yellow Zone">>,
    <<148, "Lower East Side", "Manhattan", "Yellow Zone">>,
    <<161, "Midtown Center", "Manhattan", "Yellow Zone">>,
    <<162, "Midtown East", "Manhattan", "Yellow Zone">>,
    <<163, "Midtown North", "Manhattan", "Yellow Zone">>,
    <<164, "Midtown South", "Manhattan", "Yellow Zone">>,
    <<170, "Murray Hill", "Manhattan", "Yellow Zone">>,
    <<186, "Penn Station", "Manhattan", "Yellow Zone">>,
    <<224, "Times Square", "Manhattan", "Yellow Zone">>,
    <<229, "Tribeca", "Manhattan", "Yellow Zone">>,
    <<230, "Two Bridges", "Manhattan", "Yellow Zone">>,
    <<231, "UN/Turtle Bay South", "Manhattan", "Yellow Zone">>,
    <<232, "Union Square", "Manhattan", "Yellow Zone">>,
    <<233, "Upper East Side North", "Manhattan", "Yellow Zone">>,
    <<234, "Upper East Side South", "Manhattan", "Yellow Zone">>,
    <<236, "Upper West Side North", "Manhattan", "Yellow Zone">>,
    <<237, "Upper West Side South", "Manhattan", "Yellow Zone">>,
    <<249, "Yorkville East", "Manhattan", "Yellow Zone">>,
    <<250, "Yorkville West", "Manhattan", "Yellow Zone">> >>

ZoneRow(id, name, boro, service) ==
    [location_id |-> id, zone_name |-> name, borough |-> boro,
     service_zone |-> service]

\* INSERT INTO zones VALUES (?, ?, ?, ?) under the PRIMARY KEY on location_id:
\* a row whose key is already present is not inserted (the statement raises;
\* the keys of zones_data are distinct, so the case does not arise)
InsertZone(rows, z) ==
    IF \E i \in 1..Len(rows) : rows[i].location_id = z[1] THEN rows
    ELSE Append(rows, ZoneRow(z[1], z[2], z[3], z[4]))

RECURSIVE InsertZones(_, _)
InsertZones(rows, data) ==
    IF data = <<>> THEN rows
    ELSE InsertZones(InsertZone(rows, Head(data)), Tail(data))

\* CREATE TABLE zones (...) followed by one INSERT per element of zones_data
create_minimal_zones == Table(InsertZones(<<>>, zones_data))

\* the content of /tmp/taxi_zone_lookup.csv: a CSV that has the four columns
\* the SELECT names (with its rows), or anything else
CsvRow(id, zone, boro, service) ==
    [LocationID |-> id, Zone |-> zone, Borough |-> boro,
     service_zone |-> service]

Csv(rows) == [wellformed |-> TRUE, rows |-> rows]

Unreadable == [wellformed |-> FALSE, rows |-> <<>>]

\* CREATE TABLE zones AS SELECT LocationID as location_id, Zone as zone_name,
\* Borough as borough, service_zone FROM read_csv_auto(...)
CreateZonesAs(file) ==
    Table([i \in 1..Len(file.rows) |->
             ZoneRow(file.rows[i].LocationID, file.rows[i].Zone,
                     file.rows[i].Borough, file.rows[i].service_zone)])

\* LoadedZones reading whatever file is in /tmp, downloaded by this run or not
LoadedZonesAnyFile(downloaded, file) ==
    IF file.wellformed THEN CreateZonesAs(file) ELSE create_minimal_zones

\* the CREATE TABLE AS of the zones raises
ZonesLoadFails(downloaded, file) == downloaded /\ ~file.wellformed

\* the CREATE TABLE AS succeeded and SELECT COUNT(*) FROM zones runs
ZonesCounted(downloaded, file) == downloaded /\ file.wellformed

\* the try/except around the CREATE TABLE AS, and the else branch
LoadedZones(downloaded, file) ==
    IF downloaded /\ file.wellformed THEN CreateZonesAs(file)
    ELSE create_minimal_zones

\* DropTableIfExists that leaves the table in place
DropTableKept(t) == t

\* DROP TABLE IF EXISTS
DropTableIfExists(t) == NoTable

\* CREATE TABLE raises when a table of that name exists
CreateRaises(t) == t.exists

(* --------------------------- trip-data loading ------------------------- *)

TripRow(fare, distance, passengers) ==
    [fare_amount |-> fare, trip_distance |-> distance,
     passenger_count |-> passengers]

\* a SQL comparison in a WHERE clause keeps the row only when it is true:
\* a comparison with NULL is not
Gt(x, c) == x # NULL /\ \A v \in x : v > c

Lt(x, c) == x # NULL /\ \A v \in x : v < c

Le(x, c) == x # NULL /\ \A v \in x : v <= c

\* Where without the upper bound on fare_amount
WhereNoFareCap(row) ==
    /\ Gt(row.fare_amount, FareLow)
    /\ Gt(row.trip_distance, DistanceLow)
    /\ Lt(row.trip_distance, DistanceHigh)
    /\ Gt(row.passenger_count, PassengerLow)
    /\ Le(row.passenger_count, PassengerHigh)

\* the WHERE clause of both load statements
Where(row) ==
    /\ Gt(row.fare_amount, FareLow)
    /\ Lt(row.fare_amount, FareHigh)
    /\ Gt(row.trip_distance, DistanceLow)
    /\ Lt(row.trip_distance, DistanceHigh)
    /\ Gt(row.passenger_count, PassengerLow)
    /\ Le(row.passenger_count, PassengerHigh)

Filtered(file) == SelectSeq(file, LAMBDA run : Where(run.row))

RECURSIVE RowCount(_)
RowCount(runs) == IF runs = <<>> THEN 0 ELSE Head(runs).n + RowCount(Tail(runs))

\* ROW_NUMBER() OVER (): the rows that passed the WHERE clause are numbered
\* 1, 2, ... ; rn is the number of the first row of the run
RowNumbered(runs) ==
    [j \in 1..Len(runs) |->
        [row |-> runs[j].row, n |-> runs[j].n,
         rn |-> 1 + RowCount(SubSeq(runs, 1, j - 1))]]

Min(a, b) == IF a < b THEN a ELSE b

\* Limit that keeps every row
LimitIgnored(numbered, cap) == numbered

\* LIMIT cap: cap rows of the numbered result, or all when there are fewer;
\* the engine streams the window's output, so they are the first cap rows
Limit(numbered, cap) ==
    SelectSeq([j \in 1..Len(numbered) |->
                  [numbered[j] EXCEPT !.n = Min(@, cap - numbered[j].rn + 1)]],
              LAMBDA run : run.n > 0)

\* SELECT MAX(trip_id) FROM trips: NULL for no rows or only NULLs
MaxTripId(rows) ==
    LET last == UNION {{v + rows[i].n - 1 : v \in rows[i].trip_id} :
                         i \in 1..Len(rows)}
    IN IF last = {} THEN NULL
       ELSE Val(CHOOSE m \in last : \A l \in last : l <= m)

\* a + b in SQL: NULL when an operand is NULL
Plus(a, b) ==
    IF a = NULL \/ b = NULL THEN NULL
    ELSE Val((CHOOSE v \in a : TRUE) + (CHOOSE w \in b : TRUE))

\* the select list: trip_id is the row number plus offset, the other columns
\* are renamed; the rows of a run get consecutive trip_ids, or all NULL
Selected(numbered, offset) ==
    [j \in 1..Len(numbered) |->
        [trip_id |-> Plus(Val(numbered[j].rn), offset), n |-> numbered[j].n,
         row |-> numbered[j].row]]

\* CREATE TABLE trips AS SELECT ROW_NUMBER() OVER () as trip_id, ...
\* FROM read_parquet(first_url) WHERE ... LIMIT 100000
CreateTripsAs(file) ==
    Table(Selected(Limit(RowNumbered(Filtered(file)), FirstLimit), Val(0)))

\* INSERT INTO trips SELECT ROW_NUMBER() OVER () + (SELECT MAX(trip_id) FROM
\* trips) as trip_id, ... FROM read_parquet(url) WHERE ... LIMIT 50000
InsertTrips(t, file) ==
    Table(t.rows \o Selected(Limit(RowNumbered(Filtered(file)), LaterLimit),
                             MaxTripId(t.rows)))

\* ExitCode that reports success whatever setup_database returned
ExitCodeAlwaysZero(success) == 0

\* sys.exit(0) if success else sys.exit(1)
ExitCode(success) == IF success THEN 0 ELSE 1

(* ------------------------- inputs of the model ------------------------- *)

RECURSIVE SeqsUpTo(_, _)
SeqsUpTo(S, k) ==
    IF k = 0 THEN {<<>>}
    ELSE LET shorter == SeqsUpTo(S, k - 1)
         IN shorter \cup {Append(q, x) : q \in shorter, x \in S}

Chars ==
    {"0", "1", "2", "9", "-", "+", " ", "\t", "_", "a", "U+0665", "U+096B"}

\* a literal one digit longer than int() converts
LongLiteral == [i \in 1..(IntMaxStrDigits + 1) |-> "9"]

\* everything the prompt can receive, up to MaxInputLen characters, and the
\* long literal with either sign
PromptInputs ==
    {Line(t) : t \in SeqsUpTo(Chars, MaxInputLen)}
        \cup {Line(LongLiteral), Line(<<"-">> \o LongLiteral)}
        \cup {KeyboardInterrupt, EOFError}

\* the prompt inputs of the whole-run specification: one for each way the
\* prompt ends and for the month counts 1, 2 and 3
RunInputs ==
    {Line(<<"a">>), Line(<<"1">>), Line(<<"\t", "U+0968", "\r">>),
     KeyboardInterrupt, EOFError}

MonthArgs == (0 - MaxMonthsArg)..MaxMonthsArg

GoodRows == {TripRow(Val(1), Val(1), Val(1)), TripRow(Val(499), Val(99), Val(6))}

BadRows ==
    {TripRow(Val(0), Val(1), Val(2)), TripRow(Val(500), Val(1), Val(2)),
     TripRow(Val(1), Val(0), Val(2)), TripRow(Val(1), Val(100), Val(2)),
     TripRow(Val(1), Val(1), Val(0)), TripRow(Val(1), Val(1), Val(7)),
     TripRow(Val(1), Val(1), NULL)}

Run(row, n) == [row |-> row, n |-> n]

\* a run of rows that pass the filters is short or longer than both row caps;
\* long runs of rows that fail them are in MixedFiles
Runs ==
    {Run(r, n) : r \in GoodRows, n \in {1, BigCount}}
        \cup {Run(r, 1) : r \in BadRows}

\* files in which rows that pass and rows that fail the filters alternate
MixedFiles ==
    {<<Run(TripRow(Val(500), Val(1), Val(2)), 1),
       Run(TripRow(Val(1), Val(1), Val(1)), BigCount),
       Run(TripRow(Val(1), Val(1), NULL), 1),
       Run(TripRow(Val(499), Val(99), Val(6)), 1)>>,
     <<Run(TripRow(Val(499), Val(99), Val(6)), 1),
       Run(TripRow(Val(1), Val(1), Val(0)), BigCount),
       Run(TripRow(Val(1), Val(1), Val(1)), 1)>>}

\* the content a monthly Parquet file can have
TripFiles == SeqsUpTo(Runs, MaxRuns) \cup MixedFiles

\* what the zone URL can deliver with status 200
ZonePayloads ==
    {Csv(<<CsvRow(1, "Newark Airport", "EWR", "EWR"),
           CsvRow(2, "Jamaica Bay", "Queens", "Boro Zone")>>),
     Unreadable}

\* what an earlier run can have left behind
StaleCsv == Csv(<<CsvRow(265, "Outside of NYC", "N/A", "N/A")>>)

StaleZones == Table(<<ZoneRow(265, "Outside of NYC", "N/A", "N/A")>>)

StaleTrips ==
    Table(<<[trip_id |-> Val(1), n |-> 2,
             row |-> TripRow(Val(10), Val(2), Val(3))]>>)

(* ------------------------------ the program ---------------------------- *)

\* the database file and /tmp/taxi_zone_lookup.csv as an earlier run, if any,
\* left them; nothing is assigned yet
InitFiles ==
    /\ tmpfile \in {Unreadable, StaleCsv}
    /\ zones \in {NoTable, StaleZones}
    /\ trips \in {NoTable, StaleTrips}

InitLocals ==
    /\ months_to_load = 0
    /\ conOpen = FALSE
    /\ zones_downloaded = FALSE
    /\ months = <<>>
    /\ urls = <<>>
    /\ next_url = 0
    /\ failed = {}
    /\ trip_count = 0
    /\ zone_count = 0
    /\ result = "none"
    /\ exit_status = NULL

Init ==
    /\ pc = "prompt"
    /\ stdin \in RunInputs
    /\ InitFiles
    /\ InitLocals

\* an exception nobody catches: traceback, exit status 1
Uncaught(what) ==
    /\ failed' = failed \cup {<<what, 0>>}
    /\ pc' = "exited"
    /\ exit_status' = Val(1)

\* the prompt of the __main__ block
Prompt ==
    /\ pc = "prompt"
    /\ IF PromptRaises(stdin)
       THEN /\ Uncaught("prompt")
            /\ UNCHANGED months_to_load
       ELSE /\ months_to_load' = PromptMonths(stdin)
            /\ pc' = "connect"
            /\ UNCHANGED <<failed, exit_status>>
    /\ UNCHANGED <<stdin, conOpen, tmpfile, zones_downloaded, zones, trips,
                   months, urls, next_url, trip_count, zone_count, result>>

\* duckdb.connect(db_path) and SET memory_limit, outside every try: when the
\* SET raises, the connection is open and nobody closes it
Connect ==
    /\ pc = "connect"
    /\ \E outcome \in {"connected", "connect raises", "SET raises"} :
          /\ conOpen' = (outcome # "connect raises")
          /\ IF outcome = "connected"
             THEN /\ pc' = "download"
                  /\ UNCHANGED <<failed, exit_status>>
             ELSE Uncaught(IF outcome = "connect raises" THEN "connect"
                           ELSE "memory_limit")
    /\ UNCHANGED <<stdin, months_to_load, tmpfile, zones_downloaded, zones,
                   trips, months, urls, next_url, trip_count, zone_count,
                   result>>

\* the beginnings of a text, the empty one and the whole text included
TextPrefixes(s) == {SubSeq(s, 1, k) : k \in 0..Len(s)}

\* the beginnings of a number written in decimal
RECURSIVE IdPrefixes(_)
IdPrefixes(n) == IF n < 10 THEN {n} ELSE {n} \cup IdPrefixes(n \div 10)

\* a line LocationID,Borough,Zone,service_zone cut after at least one digit:
\* the field the cut falls in keeps its beginning, the fields after it are
\* empty
CutRows(r) ==
    {CsvRow(id, "", "", "") : id \in IdPrefixes(r.LocationID)}
        \cup {CsvRow(r.LocationID, "", boro, "") :
                 boro \in TextPrefixes(r.Borough)}
        \cup {CsvRow(r.LocationID, zone, r.Borough, "") :
                 zone \in TextPrefixes(r.Zone)}
        \cup {CsvRow(r.LocationID, r.Zone, r.Borough, service) :
                 service \in TextPrefixes(r.service_zone)}

\* what a write of the payload that fails part-way leaves in the file that
\* open(..., 'wb') truncated, any number of the payload's bytes: nothing
\* readable, or the first rows (all of them when only the end of the last
\* line is missing), the last of them cut or not. Of a payload that is no
\* CSV, the beginning can be the header line of one.
PartlyWritten(payload) ==
    {Unreadable}
        \cup {Csv(SubSeq(payload.rows, 1, k)) : k \in 0..Len(payload.rows)}
        \cup UNION {{Csv(Append(SubSeq(payload.rows, 1, k - 1), cut)) :
                       cut \in CutRows(payload.rows[k])} :
                    k \in 1..Len(payload.rows)}

\* download_zone_lookup
Download ==
    /\ pc = "download"
    /\ \/ /\ zones_downloaded' = FALSE
          /\ failed' = failed \cup {<<"zone_download", 0>>}
          /\ \/ UNCHANGED tmpfile
             \/ \E payload \in ZonePayloads :
                  tmpfile' \in PartlyWritten(payload)
       \/ \E payload \in ZonePayloads :
            /\ tmpfile' = payload
            /\ zones_downloaded' = TRUE
            /\ UNCHANGED failed
    /\ pc' = "zones"
    /\ UNCHANGED <<stdin, months_to_load, conOpen, zones, trips, months, urls,
                   next_url, trip_count, zone_count, result, exit_status>>

\* DROP TABLE IF EXISTS zones, then the zones table from the downloaded file
\* (with zone_count) or from create_minimal_zones, whose CREATE TABLE is
\* outside every try: when the count after a successful CREATE TABLE AS
\* raises, the except branch calls it on the table that now exists
LoadZones ==
    /\ pc = "zones"
    /\ \/ IF CreateRaises(DropTableIfExists(zones))
          THEN /\ Uncaught("zones")
               /\ UNCHANGED <<zones, zone_count>>
          ELSE /\ zones' = LoadedZones(zones_downloaded, tmpfile)
               /\ zone_count' = IF ZonesCounted(zones_downloaded, tmpfile)
                                THEN Len(zones'.rows) ELSE zone_count
               /\ failed' = IF ZonesLoadFails(zones_downloaded, tmpfile)
                            THEN failed \cup {<<"zone_parse", 0>>}
                            ELSE failed
               /\ pc' = "months"
               /\ UNCHANGED exit_status
       \/ /\ ~CreateRaises(DropTableIfExists(zones))
          /\ ZonesCounted(zones_downloaded, tmpfile)
          /\ zones' = CreateZonesAs(tmpfile)
          /\ CreateRaises(zones')
          /\ Uncaught("zones")
          /\ UNCHANGED zone_count
    /\ UNCHANGED <<stdin, months_to_load, conOpen, tmpfile, zones_downloaded,
                   trips, months, urls, next_url, trip_count, result>>

\* the months list and DROP TABLE IF EXISTS trips
PlanMonths ==
    /\ pc = "months"
    /\ months' = MonthsToLoad(months_to_load)
    /\ trips' = DropTableIfExists(trips)
    /\ pc' = "urls"
    /\ UNCHANGED <<stdin, months_to_load, conOpen, tmpfile, zones_downloaded,
                   zones, urls, next_url, failed, trip_count, zone_count,
                   result, exit_status>>

\* one URL per month
PlanUrls ==
    /\ pc = "urls"
    /\ urls' = UrlsOf(months)
    /\ pc' = "first"
    /\ UNCHANGED <<stdin, months_to_load, conOpen, tmpfile, zones_downloaded,
                   zones, trips, months, next_url, failed, trip_count,
                   zone_count, result, exit_status>>

\* the outer except clause: con.close(); return False
Failure(what, at) ==
    /\ failed' = failed \cup {<<what, at>>}
    /\ conOpen' = FALSE
    /\ result' = "False"
    /\ pc' = "returned"

\* where the loop over urls[1:] stands after the statement for url number k
AfterUrl(k, us) == IF k < Len(us) THEN "more" ELSE "report"

\* first_url = urls[0] and the CREATE TABLE AS; a statement that fails leaves
\* the database as it was
LoadFirst ==
    /\ pc = "first"
    /\ IF urls = <<>>
       THEN /\ Failure("IndexError", 0)
            /\ UNCHANGED <<trips, next_url>>
       ELSE \/ /\ Failure("load", 1)
               /\ UNCHANGED <<trips, next_url>>
            \/ \E file \in TripFiles :
                 /\ ~CreateRaises(trips)
                 /\ trips' = CreateTripsAs(file)
                 /\ next_url' = 2
                 /\ pc' = AfterUrl(1, urls)
                 /\ UNCHANGED <<failed, conOpen, result>>
    /\ UNCHANGED <<stdin, months_to_load, tmpfile, zones_downloaded, zones,
                   months, urls, trip_count, zone_count, exit_status>>

\* the inner except clause: report and go on with the next URL
SkipFile(k) == failed \cup {<<"load", k>>}

\* one iteration of the loop over urls[1:]
LoadMore ==
    /\ pc = "more"
    /\ \/ /\ failed' = SkipFile(next_url)
          /\ UNCHANGED trips
       \/ \E file \in TripFiles :
            /\ trips' = InsertTrips(trips, file)
            /\ UNCHANGED failed
    /\ next_url' = next_url + 1
    /\ pc' = AfterUrl(next_url, urls)
    /\ UNCHANGED <<stdin, months_to_load, conOpen, tmpfile, zones_downloaded,
                   zones, months, urls, trip_count, zone_count, result,
                   exit_status>>

\* the verification and summary queries, all inside the outer try; the one
\* that raises is the first count, the second count or a later step
Report ==
    /\ pc = "report"
    /\ \/ /\ trip_count' = RowCount(trips.rows)
          /\ zone_count' = Len(zones.rows)
          /\ pc' = "close"
          /\ UNCHANGED <<failed, conOpen, result>>
       \/ \E reached \in {"trip_count", "zone_count", "later"} :
            /\ Failure("report", 0)
            /\ trip_count' = IF reached = "trip_count" THEN trip_count
                             ELSE RowCount(trips.rows)
            /\ zone_count' = IF reached = "later" THEN Len(zones.rows)
                             ELSE zone_count
    /\ UNCHANGED <<stdin, months_to_load, tmpfile, zones_downloaded, zones,
                   trips, months, urls, next_url, exit_status>>

\* con.close(); return True
Close ==
    /\ pc = "close"
    /\ conOpen' = FALSE
    /\ result' = "True"
    /\ pc' = "returned"
    /\ UNCHANGED <<stdin, months_to_load, tmpfile, zones_downloaded, zones,
                   trips, months, urls, next_url, failed, trip_count,
                   zone_count, exit_status>>

\* sys.exit
Exit ==
    /\ pc = "returned"
    /\ exit_status' = Val(ExitCode(result = "True"))
    /\ pc' = "exited"
    /\ UNCHANGED <<stdin, months_to_load, conOpen, tmpfile, zones_downloaded,
                   zones, trips, months, urls, next_url, failed, trip_count,
                   zone_count, result>>

Next ==
    \/ Prompt
    \/ Connect
    \/ Download
    \/ LoadZones
    \/ PlanMonths
    \/ PlanUrls
    \/ LoadFirst
    \/ LoadMore
    \/ Report
    \/ Close
    \/ Exit

Spec == Init /\ [][Next]_vars

\* the prompt alone, on every input up to MaxInputLen characters
InitPrompt ==
    /\ pc = "prompt"
    /\ stdin \in PromptInputs
    /\ tmpfile = Unreadable
    /\ zones = NoTable
    /\ trips = NoTable
    /\ InitLocals

SpecPrompt == InitPrompt /\ [][Prompt]_vars

\* setup_database called with any month count, from the first statement after
\* the zones are loaded to the last before the first load
InitUrls ==
    /\ pc = "months"
    /\ stdin = Line(<<>>)
    /\ months_to_load \in MonthArgs
    /\ conOpen = TRUE
    /\ tmpfile = Unreadable
    /\ zones_downloaded = FALSE
    /\ zones = create_minimal_zones
    /\ trips \in {NoTable, StaleTrips}
    /\ months = <<>>
    /\ urls = <<>>
    /\ next_url = 0
    /\ failed = {<<"zone_download", 0>>}
    /\ trip_count = 0
    /\ zone_count = 0
    /\ result = "none"
    /\ exit_status = NULL

NextUrls ==
    \/ PlanMonths
    \/ PlanUrls

SpecUrls == InitUrls /\ [][NextUrls]_vars

(* ------------------------------ properties ----------------------------- *)

\* the trips table is the one this run created (the old one was dropped
\* before the URLs were built)
CreatedThisRun == trips.exists /\ urls # <<>>

FirstId(run) == CHOOSE v \in run.trip_id : TRUE

LastId(run) == FirstId(run) + run.n - 1

FirstLoadFailed == <<"load", 1>> \in failed

LaterLoadFailed == \E k \in 2..MaxMonths : <<"load", k>> \in failed

Recovered(what) == <<what, 0>> \in failed

InputUnparsable ==
    \/ stdin.kind = "KeyboardInterrupt"
    \/ stdin.kind = "line" /\ Strip(stdin.text) # <<>>
                           /\ ~IsIntLiteral(Strip(stdin.text))

\* C1: the trip_id values of the trips table are non-null, pairwise distinct
\* and strictly increasing in the order the rows were loaded, also when a file
\* (the first one included) contributes no row or a later file fails.
C1_TripIdsUniqueIncreasing ==
    CreatedThisRun =>
        /\ \A i \in 1..Len(trips.rows) : trips.rows[i].trip_id # NULL
        /\ \A i, j \in 1..Len(trips.rows) :
              (i < j /\ trips.rows[i].trip_id # NULL
                     /\ trips.rows[j].trip_id # NULL)
                  => LastId(trips.rows[i]) < FirstId(trips.rows[j])

IsPrefix(a, b) == Len(a) <= Len(b) /\ SubSeq(b, 1, Len(a)) = a

\* C2: once the first load has failed there is no trips table, setup_database
\* has returned False and the exit status, once set, is 1; a step of the loop
\* over the later files keeps every row already in trips in place, leaves
\* trips exactly as it was when the file fails, and goes on to the next file
\* or to reporting.
C2_Step ==
    /\ FirstLoadFailed' =>
          /\ ~trips'.exists
          /\ result' = "False"
          /\ pc' \in {"returned", "exited"}
          /\ pc' = "exited" => exit_status' = Val(1)
    /\ pc = "more" =>
          /\ trips'.exists
          /\ IsPrefix(trips.rows, trips'.rows)
          /\ failed' # failed => trips' = trips
          /\ pc' \in {"more", "report"}
          /\ pc' = "more" <=> next_url' <= Len(urls)

C2_FailedLoads == [][C2_Step]_vars

\* C2 witness: the second of three files failed, the third was loaded behind
\* the rows of the first, and the run went on to reporting.
C2_Witness ==
    /\ pc = "report"
    /\ Len(urls) = 3
    /\ failed = {<<"load", 2>>}
    /\ Len(trips.rows) = 2

\* C3 as claimed: when setup_database returned, the exit status is 1 exactly
\* when the first trip-data load failed.
C3_OnlyFirstLoadExits1 ==
    (pc = "exited" /\ result # "none") =>
        (exit_status = Val(1) <=> FirstLoadFailed)

\* C3 as amended: the exit status is 1 exactly when the first trip-data load
\* or a reporting query failed (setup_database returns False) or an exception
\* escaped (end of input at the prompt, the database could not be opened or
\* configured, the zones could not be counted); a
\* failed zone download, an unreadable zone file, a failed later file and an
\* unparsable month count leave it 0.
C3_ExitStatus ==
    pc = "exited" =>
        /\ exit_status \in {Val(0), Val(1)}
        /\ exit_status = Val(1) <=>
              \/ FirstLoadFailed
              \/ Recovered("report")
              \/ Recovered("connect")
              \/ Recovered("memory_limit")
              \/ Recovered("zones")
              \/ stdin.kind = "EOFError"

\* C3 witness: every recoverable failure happened in one run that ended with
\* status 0.
C3_Witness ==
    /\ pc = "exited"
    /\ exit_status = Val(0)
    /\ InputUnparsable
    /\ Recovered("zone_download")
    /\ LaterLoadFailed

\* C4 as claimed: every row of trips has 0 < fare_amount < 500,
\* 0 < trip_distance < 100 and 1 < passenger_count <= 6.
C4_PassengersAboveOne ==
    CreatedThisRun =>
        \A i \in 1..Len(trips.rows) :
            LET r == trips.rows[i].row IN
            /\ r.fare_amount # NULL /\ \A v \in r.fare_amount : 0 < v /\ v < 500
            /\ r.trip_distance # NULL
            /\ \A v \in r.trip_distance : 0 < v /\ v < 100
            /\ r.passenger_count # NULL
            /\ \A v \in r.passenger_count : 1 < v /\ v <= 6

\* C4 as amended: every row of trips has 0 < fare_amount < 500,
\* 0 < trip_distance < 100 and 0 < passenger_count <= 6, none of them NULL.
C4_QualityFilters ==
    CreatedThisRun =>
        \A i \in 1..Len(trips.rows) :
            LET r == trips.rows[i].row IN
            /\ r.fare_amount # NULL /\ \A v \in r.fare_amount : 0 < v /\ v < 500
            /\ r.trip_distance # NULL
            /\ \A v \in r.trip_distance : 0 < v /\ v < 100
            /\ r.passenger_count # NULL
            /\ \A v \in r.passenger_count : 0 < v /\ v <= 6

\* C4 witness: trips holds a row with one passenger and a row at the upper
\* edge of all three filters, loaded from different files.
C4_Witness ==
    /\ CreatedThisRun
    /\ next_url = 3
    /\ \E i \in 1..Len(trips.rows) : trips.rows[i].row.passenger_count = Val(1)
    /\ \E i \in 1..Len(trips.rows) :
          trips.rows[i].row = TripRow(Val(499), Val(99), Val(6))

TwoDigits ==
    <<"01", "02", "03", "04", "05", "06", "07", "08", "09", "10", "11", "12">>

\* C5: for a month count N in 1..12 exactly N URLs are built, the i-th being
\* the one of month i of 2024, all distinct.
C5_OneUrlPerMonth ==
    (pc = "first" /\ months_to_load \in 1..12) =>
        /\ Len(urls) = months_to_load
        /\ \A i \in 1..Len(urls) :
              urls[i] = "https://d37ci6vzurychx.cloudfront.net/trip-data/"
                           \o "yellow_tripdata_2024-" \o TwoDigits[i]
                           \o ".parquet"
        /\ \A i, j \in 1..Len(urls) : i # j => urls[i] # urls[j]

\* C5 witness: the twelve URLs of a month count of 12 are built.
C5_Witness ==
    /\ pc = "first"
    /\ months_to_load = 12
    /\ Len(urls) = 12
    /\ urls[12] = "https://d37ci6vzurychx.cloudfront.net/trip-data/"
                      \o "yellow_tripdata_2024-12.parquet"

\* C6: for any integer months_to_load the number of URLs built is
\* months_to_load clamped to 1..12.
C6_ClampedMonthCount ==
    pc = "first" =>
        Len(urls) = (IF months_to_load < 1 THEN 1
                     ELSE IF months_to_load > 12 THEN 12
                     ELSE months_to_load)

\* the text is an integer in decimal notation, however long
DenotesInteger(text) ==
    LET u == Unsigned(text) IN
    /\ u # <<>>
    /\ \A i \in 1..Len(u) : u[i] \in Digits \cup {"_"}
    /\ u[1] \in Digits
    /\ u[Len(u)] \in Digits
    /\ \A i \in 1..(Len(u) - 1) : ~(u[i] = "_" /\ u[i + 1] = "_")

\* an integer of more digits than TLC's integers hold, the first not a zero:
\* it is below 1 when negative and above 12 otherwise
Huge(text) == Len(text) > 9 /\ DigitVal(Unsigned(text)[1]) # 0

\* C7: the prompt always yields a month count in 1..12: 3 for empty input,
\* for input that is not an integer and for an interrupted prompt, 1 for an
\* integer below 1, 12 for one above 12, the integer itself otherwise.
C7_PromptYieldsCount ==
    pc # "prompt" =>
        /\ pc = "connect"
        /\ months_to_load \in 1..12
        /\ stdin.kind # "line" => months_to_load = 3
        /\ stdin.kind = "line" =>
              LET text == Strip(stdin.text) IN
              IF text = <<>> \/ ~DenotesInteger(text) THEN months_to_load = 3
              ELSE IF Huge(text)
                   THEN months_to_load = (IF Head(text) = "-" THEN 1 ELSE 12)
              ELSE IF IntOf(text) < 1 THEN months_to_load = 1
              ELSE IF IntOf(text) > 12 THEN months_to_load = 12
              ELSE months_to_load = IntOf(text)

\* C8: when the zone download failed, the zones table holds, from the moment
\* trip loading begins to the end of the run, exactly the 38 rows of the
\* hard-coded list, in its order, with distinct location_id, and no row of an
\* earlier run or of an old downloaded file.
C8_FallbackZones ==
    (Recovered("zone_download") /\ pc \notin {"download", "zones"}) =>
        /\ zones.exists
        /\ Len(zones.rows) = 38
        /\ \A i \in 1..Len(zones.rows) :
              /\ i <= Len(zones_data)
              /\ zones.rows[i].location_id = zones_data[i][1]
              /\ zones.rows[i].zone_name = zones_data[i][2]
              /\ zones.rows[i].borough = zones_data[i][3]
              /\ zones.rows[i].service_zone = zones_data[i][4]
        /\ Cardinality({zones.rows[i].location_id : i \in 1..Len(zones.rows)})
              = Len(zones.rows)

\* C8 witness: a run over a database and a temporary file left by an earlier
\* run ended after a failed zone download.
C8_Witness ==
    /\ pc = "exited"
    /\ Recovered("zone_download")
    /\ tmpfile = StaleCsv
    /\ result = "True"
    /\ zone_count = 38

\* C9: trips never holds more than 100,000 rows for the first file plus
\* 50,000 for each later file attempted so far, hence at most
\* 100,000 + 50,000 * (N - 1) for N months and 100,000 for one month.
C9_RowCaps ==
    CreatedThisRun =>
        /\ RowCount(trips.rows) <= 100000 + 50000 * (next_url - 2)
        /\ RowCount(trips.rows) <= 100000 + 50000 * (Len(urls) - 1)
        /\ next_url - 1 <= Len(urls)
        /\ Len(urls) <= 12

\* C9 witness: two files larger than their caps filled trips to 150,000 rows.
C9_Witness ==
    /\ pc = "report"
    /\ Len(urls) = 2
    /\ RowCount(trips.rows) = 150000

PhaseOf(p) ==
    CASE p = "prompt" -> 0
      [] p = "connect" -> 1
      [] p \in {"download", "zones"} -> 2
      [] p \in {"months", "urls", "first", "more"} -> 3
      [] p = "report" -> 4
      [] p = "close" -> 5
      [] OTHER -> 6

\* C10: a run of setup_database never goes back to an earlier phase and ends
\* with the connection closed, having returned True after the reporting
\* completed or having returned False: no error escapes the function.
C10_Step ==
    /\ PhaseOf(pc') >= PhaseOf(pc)
    /\ (PhaseOf(pc) \in 1..5 /\ PhaseOf(pc') = 6) =>
          /\ ~conOpen'
          /\ result' \in {"True", "False"}
          /\ result' = "True" => pc = "close"

C10_TwoTerminalStates == [][C10_Step]_vars

====
